---- MODULE Spec2Model ----
(***************************************************************************)
(* Model of streamlit_app.py: the snapshot builder load_and_process_data   *)
(* (two CSV tables -> one row per ticker), the four sidebar filters, the   *)
(* per-group display loop and the formatting / styling functions.          *)
(*                                                                         *)
(* Cell values are records [kind, num, str]: kind is "na" (NaN / None),    *)
(* "int", "float", "bool" or "str".  Numbers are scaled integers:          *)
(*   rs_rank_21d, rs_rank_252d       hundredths   (0.85 is 85)             *)
(*   ratio_pct_dist_to_atr_pct       tenths       (4.0 is 40)              *)
(*   ret_intraday, ret_1d            thousandths  (0.012 is 12)            *)
(*   stage_label_core, rs_to_spy     units                                 *)
(* A date is the ordinal of the parsed Timestamp.                          *)
(***************************************************************************)
EXTENDS Integers, Sequences, FiniteSets, TLC

VARIABLES
    daily,        \* the daily CSV:  [cols : set of column names, rows : Seq(row)]
    weekly,       \* the weekly CSV: same shape
    cache,        \* st.cache_data entry of load_and_process_data
    toggles,      \* the four sidebar toggles
    filtered_df,  \* rows of filtered_df after the last script run
    sections,     \* what the last script run displayed, one entry per subheader;
                  \* rows is the table under it, <<>> when there is none
    pc            \* "start" before the first run, "rendered", or "failed"

vars == <<daily, weekly, cache, toggles, filtered_df, sections, pc>>

----------------------------------------------------------------------------
(* Bounds of the model *)

\* rows of the daily file
MaxDaily == 3
\* columns missing from one file
MaxAbsent == 1
\* tickers of the snapshot the filters and the display loop run on
MaxTickers == 2

Dates == {1, 2, 3}

----------------------------------------------------------------------------
(* Cell values *)

NA == [kind |-> "na", num |-> 0, str |-> ""]
IntV(n) == [kind |-> "int", num |-> n, str |-> ""]
FltV(n) == [kind |-> "float", num |-> n, str |-> ""]
StrV(s) == [kind |-> "str", num |-> 0, str |-> s]
BoolV(b) == [kind |-> "bool", num |-> IF b THEN 1 ELSE 0, str |-> ""]

\* pd.isna / pd.notna on a scalar
isna(v) == v.kind = "na"
notna(v) == ~isna(v)

IsNumber(v) == v.kind \in {"int", "float", "bool"}

----------------------------------------------------------------------------
(* Program constants *)

GROUP_ORDER == <<"Market", "Sector", "Commodity", "Crypto", "Country", "Theme", "Leader">>

DISPLAY_ORDER ==
    <<"Ticker", "RS Trend", "RS 1M", "RS 1Y", "Volume",
      "Intraday", "1D Return", "Extension", "> SMA10", "> SMA20", "Stage">>

COLUMN_RENAME ==
    [ticker |-> "Ticker",
     ret_intraday |-> "Intraday",
     ret_1d |-> "1D Return",
     rs_rank_21d |-> "RS 1M",
     rs_rank_252d |-> "RS 1Y",
     pp_volume |-> "Volume",
     ratio_pct_dist_to_atr_pct |-> "Extension",
     above_sma10 |-> "> SMA10",
     above_sma20 |-> "> SMA20",
     stage_label_core |-> "Stage",
     group |-> "group"]

\* df.rename(columns=COLUMN_RENAME): a column outside the map keeps its name
Rename(c) == IF c \in DOMAIN COLUMN_RENAME THEN COLUMN_RENAME[c] ELSE c

\* The columns of the two source tables
DailyMeasures ==
    {"rs_to_spy", "ret_intraday", "ret_1d", "rs_rank_21d", "rs_rank_252d",
     "pp_volume", "ratio_pct_dist_to_atr_pct", "above_sma10", "above_sma20", "group"}
DailyCols == {"ticker", "date"} \cup DailyMeasures
WeeklyCols == {"ticker", "date", "stage_label_core"}

\* groupby sorts its keys: the order of the ticker strings
TickerOrder == <<"A", "B", "C">>

----------------------------------------------------------------------------
(* Sequence helpers *)

Range(s) == {s[i] : i \in DOMAIN s}

\* The permutations of 1..n, as sequences
Perms(n) == {p \in [1..n -> 1..n] : \A i, j \in 1..n : p[i] = p[j] => i = j}
PermsOf == [n \in 0..(MaxDaily + 1) |-> Perms(n)]

\* s reordered by the permutation p
Reorder(s, p) == [i \in DOMAIN s |-> s[p[i]]]

Max(S) == CHOOSE x \in S : \A y \in S : y <= x

----------------------------------------------------------------------------
(* load_and_process_data *)

NoResult == [status |-> "none", cols |-> <<>>, rows |-> <<>>]
KeyError == [status |-> "error", cols |-> <<>>, rows |-> <<>>]

\* faulty variant of SortOrders: no sort, the rows stay in file order
SortOrdersFileOrder(rows) == {[i \in 1..Len(rows) |-> i]}

\* df.sort_values("date"): the default kind is quicksort, which is not stable,
\* so rows of equal date may come out in any order.  The result is a
\* permutation of the row positions with non-decreasing dates.
SortOrders(rows) ==
    {p \in PermsOf[Len(rows)] :
        \A i, j \in 1..Len(rows) :
            i < j => rows[p[i]]["date"].num <= rows[p[j]]["date"].num}

\* groupby("ticker"): the group keys, sorted
GroupKeys(rows) ==
    SelectSeq(TickerOrder, LAMBDA t : \E i \in DOMAIN rows : rows[i]["ticker"].str = t)

\* the rows of one group, in the order of the frame
GroupRows(rows, t) == SelectSeq(rows, LAMBDA r : r["ticker"].str = t)

\* ["rs_to_spy"].apply(list): every value of the group, NaN included
AsList(g, col) == [i \in DOMAIN g |-> g[i][col]]

\* GroupBy.last(): the last non-null value of the column in the group
\* (NaN when the group holds none)
Last(g, col) ==
    LET valid == {i \in DOMAIN g : notna(g[i][col])}
    IN  IF valid = {} THEN NA ELSE g[Max(valid)][col]

\* the union of two rows with disjoint columns
Combine(l, r) ==
    [c \in (DOMAIN l) \cup (DOMAIN r) |-> IF c \in DOMAIN l THEN l[c] ELSE r[c]]

\* faulty variant of MergeLeft: how="inner", a left row with no match is dropped
MergeInner(left, right, rcols) ==
    LET kept == SelectSeq(left, LAMBDA l : \E i \in DOMAIN right : right[i]["ticker"] = l["ticker"])
    IN  [i \in DOMAIN kept |->
            Combine(kept[i], (SelectSeq(right, LAMBDA r : r["ticker"] = kept[i]["ticker"]))[1])]

\* a column of a frame is int64 when every cell of it is an integer
IsIntColumn(frame, c) ==
    frame # <<>> /\ \A i \in DOMAIN frame : frame[i][c].kind = "int"

\* the cell of an int64 column that is stored as float64
AsFloat(v) == IF v.kind = "int" THEN FltV(v.num) ELSE v

\* left.merge(right, on="ticker", how="left"); right holds one row per
\* ticker. A left row with no match gets NaN in the columns of right, and an
\* int64 column that receives a NaN becomes float64
MergeLeft(left, right, rcols) ==
    LET unmatched == \E i \in DOMAIN left :
                         \A j \in DOMAIN right : right[j]["ticker"] # left[i]["ticker"]
        cell(r, c) == IF c \in rcols /\ unmatched /\ IsIntColumn(right, c)
                      THEN AsFloat(r[c]) ELSE r[c]
    IN  [i \in DOMAIN left |->
            LET m == SelectSeq(right, LAMBDA r : r["ticker"] = left[i]["ticker"])
            IN  IF m = <<>>
                THEN Combine(left[i], [c \in rcols |-> NA])
                ELSE Combine(left[i], [c \in DOMAIN m[1] |-> cell(m[1], c)])]

\* lines 48-53
Sparkline(sorted) ==
    LET keys == GroupKeys(sorted)
    IN  [k \in DOMAIN keys |->
            ("ticker" :> StrV(keys[k])) @@
            ("RS Trend" :> AsList(GroupRows(sorted, keys[k]), "rs_to_spy"))]

\* line 55
Latest(sorted, cols) ==
    LET keys == GroupKeys(sorted)
    IN  [k \in DOMAIN keys |->
            LET g == GroupRows(sorted, keys[k])
            IN  [c \in cols |->
                    IF c = "ticker" THEN StrV(keys[k]) ELSE Last(g, c)]]

\* line 56
StageFrame(sorted) ==
    LET keys == GroupKeys(sorted)
    IN  [k \in DOMAIN keys |->
            [c \in {"ticker", "stage_label_core"} |->
                IF c = "ticker" THEN StrV(keys[k])
                ELSE Last(GroupRows(sorted, keys[k]), c)]]

\* lines 61-64: rename, then DISPLAY_ORDER restricted to the columns present,
\* then "group" when present
OutputCols(columns) ==
    SelectSeq(DISPLAY_ORDER, LAMBDA c : c \in columns)
        \o (IF "group" \in columns THEN <<"group">> ELSE <<>>)

\* the column a renamed column comes from
MergedCols == DailyCols \cup {"RS Trend", "stage_label_core"}
SourceOf == [c \in {Rename(s) : s \in MergedCols} |-> CHOOSE s \in MergedCols : Rename(s) = c]

Select(row, outcols) == [c \in Range(outcols) |-> row[SourceOf[c]]]

\* The column look-ups that raise KeyError: df["date"] (lines 45, 46),
\* groupby("ticker")["rs_to_spy"] (line 50), groupby("ticker") of line 55,
\* groupby("ticker")["stage_label_core"] (line 56).  No other column is
\* looked up by name before line 62, which keeps the columns present.
RaisesKeyError(d, w) ==
    \/ "date" \notin d.cols
    \/ "date" \notin w.cols
    \/ "ticker" \notin d.cols
    \/ "rs_to_spy" \notin d.cols
    \/ "ticker" \notin w.cols
    \/ "stage_label_core" \notin w.cols

\* load_and_process_data on the tables d and w, the two sorts returning the
\* orders pd and pw
LoadAndProcess(d, w, pd, pw) ==
    IF RaisesKeyError(d, w) THEN KeyError
    ELSE
        LET ds == Reorder(d.rows, pd)
            ws == Reorder(w.rows, pw)
            m1 == MergeLeft(Sparkline(ds), Latest(ds, d.cols), d.cols)
            m2 == MergeLeft(m1, StageFrame(ws), {"ticker", "stage_label_core"})
            columns == {Rename(c) : c \in d.cols \cup {"RS Trend", "stage_label_core"}}
            outcols == OutputCols(columns)
        IN  [status |-> "ok",
             cols |-> outcols,
             rows |-> [i \in DOMAIN m2 |-> Select(m2[i], outcols)]]

----------------------------------------------------------------------------
(* Sidebar filters, lines 77-85 *)

\* 0.85 in hundredths (lines 79, 81, 120)
StrongRank == 85
\* 0.50 in hundredths (line 121)
NeutralRank == 50
\* 4 and 10 in tenths (lines 83, 128, 129)
ExtLow == 40
ExtHigh == 100

\* Series >= x, Series <= x, Series == x on one element: False on NaN
Ge(v, x) == IsNumber(v) /\ v.num >= x
Le(v, x) == IsNumber(v) /\ v.num <= x
\* == 2 on one element: 2 and 2.0 compare equal, the string "2" does not
EqNum(v, x) == IsNumber(v) /\ v.num = x

ToggleNames == {"hide_weak_rs_1m", "hide_weak_rs_1y", "limit_extension", "stage_2_only"}

\* line 77: df.copy() is a new frame holding the same rows
Copy(rows) == rows

\* faulty variant of ApplyFilters: a row is kept when it passes any active filter
ApplyFiltersAny(df, t) ==
    LET on(n, c) == t[n] /\ c \in Range(df.cols)
    IN  IF ~(\/ on("hide_weak_rs_1m", "RS 1M") \/ on("hide_weak_rs_1y", "RS 1Y")
             \/ on("limit_extension", "Extension") \/ on("stage_2_only", "Stage"))
        THEN df.rows
        ELSE SelectSeq(df.rows, LAMBDA r :
                \/ on("hide_weak_rs_1m", "RS 1M") /\ Ge(r["RS 1M"], StrongRank)
                \/ on("hide_weak_rs_1y", "RS 1Y") /\ Ge(r["RS 1Y"], StrongRank)
                \/ on("limit_extension", "Extension") /\ Le(r["Extension"], ExtLow)
                \/ on("stage_2_only", "Stage") /\ EqNum(r["Stage"], 2))

\* lines 77-85
ApplyFilters(df, t) ==
    LET has(c) == c \in Range(df.cols)
        f0 == Copy(df.rows)
        f1 == IF t["hide_weak_rs_1m"] /\ has("RS 1M")
              THEN SelectSeq(f0, LAMBDA r : Ge(r["RS 1M"], StrongRank)) ELSE f0
        f2 == IF t["hide_weak_rs_1y"] /\ has("RS 1Y")
              THEN SelectSeq(f1, LAMBDA r : Ge(r["RS 1Y"], StrongRank)) ELSE f1
        f3 == IF t["limit_extension"] /\ has("Extension")
              THEN SelectSeq(f2, LAMBDA r : Le(r["Extension"], ExtLow)) ELSE f2
        f4 == IF t["stage_2_only"] /\ has("Stage")
              THEN SelectSeq(f3, LAMBDA r : EqNum(r["Stage"], 2)) ELSE f3
    IN  f4

----------------------------------------------------------------------------
(* Formatting and styling functions, lines 96-130 *)

\* A display string: a fixed text, or a number formatted to a template.
\* n is the number shown, in tenths for "%.1f" and in units for "%.0f".
Txt(s, n) == [s |-> s, n |-> n]
EmptyStr == Txt("", 0)

\* the emoji of lines 103, 106, 111
Yellow == Txt("yellow circle", 0)
Green == Txt("green circle", 0)
Orange == Txt("orange circle", 0)
Red == Txt("red circle", 0)
White == Txt("white circle", 0)
Gem == Txt("gem", 0)
CheckMark == Txt("check mark", 0)
CrossMark == Txt("cross mark", 0)

\* val*100 of a return in thousandths is val.num tenths of a percent;
\* val*100 of a rank in hundredths is val.num percent
pct(val, decimals) ==
    IF notna(val)
    THEN Txt(IF decimals = 1 THEN "%.1f%%" ELSE "%.0f%%", val.num)
    ELSE EmptyStr

ext(val) == IF notna(val) THEN Txt("%.1f", val.num) ELSE EmptyStr

\* {1: .., 2: .., 3: .., 4: ..}.get(s, white): 2.0 hashes as 2, "2" is no key
stage_emoji(s) ==
    IF notna(s)
    THEN IF EqNum(s, 1) THEN Yellow
         ELSE IF EqNum(s, 2) THEN Green
         ELSE IF EqNum(s, 3) THEN Orange
         ELSE IF EqNum(s, 4) THEN Red
         ELSE White
    ELSE White

volume_icon(v) ==
    IF notna(v)
    THEN IF v.kind = "str" /\ v.str = "Pocket" THEN Gem ELSE White
    ELSE White

UpperCase ==
    <<"A", "B", "C", "D", "E", "F", "G", "H", "I", "J", "K", "L", "M",
      "N", "O", "P", "Q", "R", "S", "T", "U", "V", "W", "X", "Y", "Z">>
LowerCase ==
    <<"a", "b", "c", "d", "e", "f", "g", "h", "i", "j", "k", "l", "m",
      "n", "o", "p", "q", "r", "s", "t", "u", "v", "w", "x", "y", "z">>

\* the lower case of one character: a letter A-Z maps to a-z, any other
\* ASCII character to itself
LowerChar(c) ==
    IF \E k \in DOMAIN UpperCase : UpperCase[k] = c
    THEN LowerCase[CHOOSE k \in DOMAIN UpperCase : UpperCase[k] = c]
    ELSE c

\* str.lower of an ASCII string: every character lower-cased in place
RECURSIVE Lower(_)
Lower(s) ==
    IF Len(s) = 0 THEN s
    ELSE LowerChar(SubSeq(s, 1, 1)) \o Lower(SubSeq(s, 2, Len(s)))

\* str(val).lower() in ("true", "1", "1.0", "yes")
Truthy(val) ==
    CASE val.kind = "bool" -> val.num = 1       \* "True" / "False"
      [] val.kind = "int" -> val.num = 1        \* "1"
      [] val.kind = "float" -> val.num = 1      \* "1.0"
      [] OTHER -> Lower(val.str) \in {"true", "1", "1.0", "yes"}

checkmark(val) ==
    IF isna(val) THEN EmptyStr
    ELSE IF Truthy(val) THEN CheckMark ELSE CrossMark

NoStyle == ""
StyleGreen == "background-color: #d4f4dd; font-weight: bold"
StyleRed == "background-color: #f4d4d4; font-weight: bold"
StyleGrey == "background-color: #e0e0e0; font-weight: bold"
StyleYellow == "background-color: #fff7cc; font-weight: bold"

style_returns(val) ==
    IF isna(val) THEN NoStyle
    ELSE IF val.num > 0 THEN StyleGreen ELSE StyleRed

style_rs(val) ==
    IF isna(val) THEN NoStyle
    ELSE IF val.num >= StrongRank THEN StyleGreen
    ELSE IF val.num >= NeutralRank THEN StyleGrey
    ELSE StyleRed

\* faulty variant of style_extension: the upper bounds are exclusive
style_extension_exclusive(val) ==
    IF isna(val) THEN NoStyle
    ELSE IF val.num < 0 THEN StyleGrey
    ELSE IF val.num < ExtLow THEN StyleGreen
    ELSE IF val.num < ExtHigh THEN StyleYellow
    ELSE StyleRed

style_extension(val) ==
    IF isna(val) THEN NoStyle
    ELSE IF val.num < 0 THEN StyleGrey
    ELSE IF val.num <= ExtLow THEN StyleGreen
    ELSE IF val.num <= ExtHigh THEN StyleYellow
    ELSE StyleRed

----------------------------------------------------------------------------
(* Display loop, lines 139-176 *)

FormatCols ==
    {"Intraday", "1D Return", "RS 1M", "RS 1Y", "Extension", "Stage", "Volume",
     "> SMA10", "> SMA20"}

\* the formatter dict of lines 154-164
Formatter(col, x) ==
    CASE col \in {"Intraday", "1D Return"} -> pct(x, 1)
      [] col \in {"RS 1M", "RS 1Y"} -> pct(x, 0)
      [] col = "Extension" -> ext(x)
      [] col = "Stage" -> stage_emoji(x)
      [] col = "Volume" -> volume_icon(x)
      [] OTHER -> checkmark(x)

\* faulty variant of StylerText: format without na_rep
StylerTextNoNaRep(col, x) == Formatter(col, x)

\* Styler.format(formatter, na_rep=""): with na_rep given, the Styler wraps
\* each formatter as  na_rep if isna(x) else formatter(x)
StylerText(col, x) == IF isna(x) THEN EmptyStr ELSE Formatter(col, x)

\* Styler.map of lines 166-168; a column outside the subsets gets no style
StylerStyle(col, x) ==
    CASE col \in {"Intraday", "1D Return"} -> style_returns(x)
      [] col \in {"RS 1M", "RS 1Y"} -> style_rs(x)
      [] col = "Extension" -> style_extension(x)
      [] OTHER -> NoStyle

\* faulty variant of GroupMask: the mask of line 141 is True for every row
GroupMaskTrue(r, group_name) == TRUE

\* mask = filtered_df["group"] == group_name : False on NaN
GroupMask(r, group_name) == r["group"].kind = "str" /\ r["group"].str = group_name

\* the columns the subsets of lines 166-168 name
StyledCols == {"Intraday", "1D Return", "RS 1M", "RS 1Y", "Extension"}

\* st.dataframe (line 170) computes the Styler: Styler.format skips a key
\* that is no column of the frame, Styler.map raises KeyError on a subset
\* that names one
StylerRaises(cols) == ~(StyledCols \subseteq Range(cols))

\* what st.dataframe gives when the Styler raises
StylerKeyError == [ticker |-> "", text |-> <<>>, style |-> <<>>]

\* one displayed table row: the data, the cell texts and the cell styles
DisplayRow(r, cols) ==
    IF StylerRaises(cols) THEN StylerKeyError
    ELSE LET fc == FormatCols \cap Range(cols)
         IN  [ticker |-> r["Ticker"].str,
              text |-> [c \in fc |-> StylerText(c, r[c])],
              style |-> [c \in fc |-> StylerStyle(c, r[c])]]

\* the groups whose pass reaches line 148: a group with no row is skipped
ShownGroups(rows) ==
    SelectSeq(GROUP_ORDER, LAMBDA g : \E i \in DOMAIN rows : GroupMask(rows[i], g))

\* the sections of a loop that runs to its end
Sections(rows, cols) ==
    LET shown == ShownGroups(rows)
    IN  [k \in DOMAIN shown |->
            LET group_df == SelectSeq(rows, LAMBDA r : GroupMask(r, shown[k]))
            IN  [name |-> shown[k],
                 rows |-> [i \in DOMAIN group_df |-> DisplayRow(group_df[i], cols)]]]

----------------------------------------------------------------------------
(* The script, lines 66-176 *)

AllOff == [n \in ToggleNames |-> FALSE]

\* The frames of one run are objects: store[k] is the rows object k holds,
\* df and filtered_df are the objects the two names of the script are bound
\* to (0: not bound yet). Object 1 is the frame st.cache_data stores.
RunStart(stored) == [store |-> <<stored.rows>>, df |-> 0, filtered_df |-> 0]

\* line 66 on a cache hit: st.cache_data returns a copy of the stored value,
\* a new object, and df is bound to it
BindDf(h) ==
    [h EXCEPT !.store = Append(h.store, Copy(h.store[1])), !.df = Len(h.store) + 1]

\* line 77: filtered_df = df.copy(), a new object
BindCopy(h) ==
    [h EXCEPT !.store = Append(h.store, Copy(h.store[h.df])),
              !.filtered_df = Len(h.store) + 1]

\* lines 78-85: filtered_df = filtered_df[mask] builds a new frame of the
\* selected rows and binds the name to it; the frame indexed is not written
BindFiltered(h, cols, t) ==
    [h EXCEPT !.store = Append(h.store,
                               ApplyFilters([cols |-> cols, rows |-> h.store[h.filtered_df]], t)),
              !.filtered_df = Len(h.store) + 1]

\* the objects after lines 66-85
RunFrames(stored, t) == BindFiltered(BindCopy(BindDf(RunStart(stored))), stored.cols, t)

\* the orders a sort of table t may return; no sort runs on a table without
\* a date column (line 45 or 46 has raised)
SortChoices(t) ==
    IF "date" \in t.cols THEN SortOrders(t.rows) ELSE {[i \in DOMAIN t.rows |-> i]}

\* line 66 on a cache miss: the function runs and its result is stored
LoadAndProcessData ==
    /\ pc = "start"
    /\ cache.status = "none"
    /\ \E pd \in SortChoices(daily), pw \in SortChoices(weekly) :
           cache' = LoadAndProcess(daily, weekly, pd, pw)
    /\ UNCHANGED <<daily, weekly, toggles, filtered_df, sections, pc>>

\* The exceptions of the loop of lines 139-176: filtered_df[True] raises
\* KeyError when there is no group column (line 142), in the first pass; the
\* Styler raises at line 170 in the pass of the first group that has a row
LoopRaises(rows, cols) ==
    \/ "group" \notin Range(cols)
    \/ StylerRaises(cols) /\ ShownGroups(rows) # <<>>

\* What the page holds when the loop raises: nothing when line 142 raises;
\* when line 170 raises, the subheader of that pass (lines 148-149) with no
\* table under it
SectionsAtRaise(rows, cols) ==
    IF "group" \notin Range(cols) THEN <<>>
    ELSE <<[name |-> Head(ShownGroups(rows)), rows |-> <<>>]>>

\* lines 71-176 with df the frame line 66 returned and t the toggle values.
\* An exception ends the run
RunScript(df, t) ==
    LET h == RunFrames(df, t)
        f == h.store[h.filtered_df]
    IN  /\ filtered_df' = f
        /\ cache' = [df EXCEPT !.rows = h.store[1]]
        /\ IF LoopRaises(f, df.cols)
           THEN sections' = SectionsAtRaise(f, df.cols) /\ pc' = "failed"
           ELSE sections' = Sections(f, df.cols) /\ pc' = "rendered"

\* the first run of a session, after line 66: every toggle has its default
Display ==
    /\ pc = "start"
    /\ cache.status = "ok"
    /\ RunScript(cache, toggles)
    /\ UNCHANGED <<daily, weekly, toggles>>

\* faulty variant of Toggle: the rerun starts from the frame the previous
\* run left in filtered_df, not from the stored frame
ToggleOnFiltered(name) ==
    /\ pc \in {"rendered", "failed"}
    /\ cache.status = "ok"
    /\ toggles' = [toggles EXCEPT ![name] = ~toggles[name]]
    /\ RunScript([cache EXCEPT !.rows = filtered_df], toggles')
    /\ UNCHANGED <<daily, weekly>>

\* the user flips one toggle; Streamlit reruns the script, line 66 is a cache hit
Toggle(name) ==
    /\ pc \in {"rendered", "failed"}
    /\ cache.status = "ok"
    /\ toggles' = [toggles EXCEPT ![name] = ~toggles[name]]
    /\ RunScript(cache, toggles')
    /\ UNCHANGED <<daily, weekly>>

----------------------------------------------------------------------------
(* Source tables *)

Table(cols, rows) == [cols |-> cols, rows |-> [i \in DOMAIN rows |-> [c \in cols |-> rows[i][c]]]]

DailyRow(ticker, date, vals) ==
    [c \in DailyCols |->
        IF c = "ticker" THEN StrV(ticker)
        ELSE IF c = "date" THEN IntV(date)
        ELSE vals[c]]

WeeklyRow(ticker, date, stage) ==
    [ticker |-> StrV(ticker), date |-> IntV(date), stage_label_core |-> stage]

\* The value the row at position id of the daily file holds in a column: it
\* names the row, so that a snapshot value tells which row it was taken from
CellOf(c, id) ==
    CASE c = "group" -> StrV(GROUP_ORDER[id])
      [] c = "pp_volume" -> StrV(IF id % 2 = 1 THEN "Pocket" ELSE "Normal")
      [] c \in {"above_sma10", "above_sma20"} -> BoolV(id % 2 = 1)
      [] OTHER -> FltV(id)

\* Which cells of a daily row are empty: none, or the listed ones
MissingPatterns ==
    {{}, {"rs_to_spy", "ret_1d", "rs_rank_21d", "above_sma10", "group"}}

BuildDaily(n, tk, dt, ms) ==
    [i \in 1..n |->
        DailyRow(tk[i], dt[i],
                 [c \in DailyMeasures |-> IF c \in ms[i] THEN NA ELSE CellOf(c, i)])]

\* stage code of the weekly row at position id; a column that also holds
\* an empty cell is read as floats
StageOf(id) == FltV(id + 1)

\* Weekly files: none; a ticker the daily file never holds ("C"); two rows of
\* one ticker in either file order, the later one empty or not
WeeklyTables ==
    {Table(WeeklyCols, rows) : rows \in
        {<<>>,
         <<WeeklyRow("C", 1, StageOf(1))>>,
         <<WeeklyRow("A", 1, StageOf(1)), WeeklyRow("A", 2, NA)>>,
         <<WeeklyRow("A", 2, StageOf(1)), WeeklyRow("A", 1, StageOf(2))>>,
         <<WeeklyRow("A", 2, NA), WeeklyRow("C", 1, StageOf(2))>>}}

\* State before the first run: both files fixed, nothing cached, toggles off
InitWith(d, w) ==
    /\ daily = d
    /\ weekly = w
    /\ cache = NoResult
    /\ toggles = AllOff
    /\ filtered_df = <<>>
    /\ sections = <<>>
    /\ pc = "start"

\* A row of the daily file: its ticker, its date and its empty cells (the
\* rows of ticker B have none)
RowChoices ==
    {<<"A", d, m>> : d \in Dates, m \in MissingPatterns} \cup {<<"B", d, {}>> : d \in Dates}

\* any daily file of at most MaxDaily rows, with any of the weekly files
Init ==
    \E n \in 0..MaxDaily :
        \E rc \in [1..n -> RowChoices], w \in WeeklyTables :
            InitWith(Table(DailyCols,
                           BuildDaily(n, [i \in 1..n |-> rc[i][1]], [i \in 1..n |-> rc[i][2]],
                                      [i \in 1..n |-> rc[i][3]])),
                     w)

Next == LoadAndProcessData

\* load_and_process_data as a function of the two tables
Spec == Init /\ [][Next]_vars

----------------------------------------------------------------------------
(* Properties of load_and_process_data *)

TickersOf(t) == {t.rows[i]["ticker"].str : i \in DOMAIN t.rows}
RowsOf(t, tk) == {i \in DOMAIN t.rows : t.rows[i]["ticker"].str = tk}

\* the rows of ticker tk whose date is the maximum date of the ticker
MaxDateRows(t, tk) ==
    {i \in RowsOf(t, tk) :
        \A j \in RowsOf(t, tk) : t.rows[j]["date"].num <= t.rows[i]["date"].num}

Loaded == cache.status = "ok"

\* C1: the snapshot holds exactly one row per distinct ticker of the daily
\* table and none for a ticker of the weekly table only; the RS Trend of a row
\* has as many elements as the ticker has daily rows; a daily ticker with no
\* weekly row has its row, with Stage missing.
C1_OneRowPerDailyTicker ==
    Loaded =>
        /\ Len(cache.rows) = Cardinality(TickersOf(daily))
        /\ {cache.rows[i]["Ticker"].str : i \in DOMAIN cache.rows} = TickersOf(daily)
        /\ \A i \in DOMAIN cache.rows :
              LET tk == cache.rows[i]["Ticker"].str
              IN  /\ Len(cache.rows[i]["RS Trend"]) = Cardinality(RowsOf(daily, tk))
                  /\ tk \notin TickersOf(weekly) => cache.rows[i]["Stage"] = NA

\* C1 witness: ticker A with two daily rows, one with an empty rs_to_spy
\* cell, ticker B with one daily row and no weekly row, ticker C in the
\* weekly table only
C1_Witness ==
    /\ Loaded
    /\ Cardinality(RowsOf(daily, "A")) = 2
    /\ Cardinality(RowsOf(daily, "B")) = 1
    /\ \E i \in RowsOf(daily, "A") : isna(daily.rows[i]["rs_to_spy"])
    /\ Len(cache.rows[1]["RS Trend"]) = 2
    /\ TickersOf(weekly) = {"C"}
    /\ Len(cache.rows) = 2
    /\ Len(cache.rows[2]["RS Trend"]) = 1
    /\ cache.rows[2]["Stage"] = NA

\* C2: for a ticker whose maximum date is held by one daily row, every latest
\* daily field of the snapshot is the value of that row, missing or not; and
\* Stage is the stage_label_core of the maximum-date weekly row.
C2_LatestRowValues ==
    Loaded =>
        \A i \in DOMAIN cache.rows :
            LET tk == cache.rows[i]["Ticker"].str
            IN  /\ \A m \in MaxDateRows(daily, tk) :
                      MaxDateRows(daily, tk) = {m} =>
                          \A c \in DailyMeasures \ {"rs_to_spy"} :
                              cache.rows[i][Rename(c)] = daily.rows[m][c]
                /\ \A m \in MaxDateRows(weekly, tk) :
                      MaxDateRows(weekly, tk) = {m} =>
                          cache.rows[i]["Stage"] = weekly.rows[m]["stage_label_core"]

\* C8: the RS Trend of a ticker is the rs_to_spy values of its daily rows in
\* ascending date order: some arrangement of the ticker's rows with
\* non-decreasing dates (rows of equal date in either order) yields it.
C8_TrendInDateOrder ==
    Loaded =>
        \A i \in DOMAIN cache.rows :
            LET ids == RowsOf(daily, cache.rows[i]["Ticker"].str)
                k == Cardinality(ids)
            IN  \E q \in [1..k -> ids] :
                    /\ \A a, b \in 1..k : a < b =>
                          /\ q[a] # q[b]
                          /\ daily.rows[q[a]]["date"].num <= daily.rows[q[b]]["date"].num
                    /\ cache.rows[i]["RS Trend"] =
                          [a \in 1..k |-> daily.rows[q[a]]["rs_to_spy"]]

\* C8 witness: the file holds the rows of A dated 3, 1, 2 in that order and
\* the trend lists them by date
C8_Witness ==
    /\ Loaded
    /\ Len(daily.rows) = 3
    /\ \A i \in 1..3 : daily.rows[i]["ticker"].str = "A" /\ notna(daily.rows[i]["rs_to_spy"])
    /\ daily.rows[1]["date"].num = 3
    /\ daily.rows[2]["date"].num = 1
    /\ daily.rows[3]["date"].num = 2
    /\ cache.rows[1]["RS Trend"] = <<FltV(2), FltV(3), FltV(1)>>

----------------------------------------------------------------------------
(* load_and_process_data on files that lack columns *)

AbsentSets(cols) == {a \in SUBSET cols : Cardinality(a) <= MaxAbsent}

SchemaDailyRows ==
    {BuildDaily(n, [i \in 1..n |-> "A"], [i \in 1..n |-> i], [i \in 1..n |-> {}]) : n \in 0..2}

SchemaWeeklyRows ==
    {<<>>, <<WeeklyRow("A", 1, StageOf(1))>>, <<WeeklyRow("C", 1, StageOf(1))>>}

InitSchema ==
    \E dr \in SchemaDailyRows, wr \in SchemaWeeklyRows,
       da \in AbsentSets(DailyCols), wa \in AbsentSets(WeeklyCols) :
        InitWith(Table(DailyCols \ da, dr), Table(WeeklyCols \ wa, wr))

SpecSchema == InitSchema /\ [][Next]_vars

Called == cache.status # "none"

\* C3: with any column of the schema absent from the daily or the weekly
\* table the call fails with an error and returns no rows; it never returns
\* a snapshot that lacks the display column of the absent column.
C3_AnyAbsentColumnFails ==
    (Called /\ (daily.cols # DailyCols \/ weekly.cols # WeeklyCols)) => cache.status = "error"

----------------------------------------------------------------------------
(* Sessions: the script run on a snapshot of one row per ticker *)

\* marks a ticker with no row in the weekly file
NoRow == [kind |-> "norow", num |-> 0, str |-> ""]

Profile(rs21, rs252, extv, stage, disp) ==
    [rs21 |-> rs21, rs252 |-> rs252, ext |-> extv, stage |-> stage, disp |-> disp]

\* the columns no filter reads
Disp(ret, ret1d, vol, sma10, sma20, grp) ==
    [ret |-> ret, ret1d |-> ret1d, vol |-> vol, sma10 |-> sma10, sma20 |-> sma20, grp |-> grp]

ProfileVals(p, i) ==
    [c \in DailyMeasures |->
        CASE c = "rs_to_spy" -> FltV(i)
          [] c = "ret_intraday" -> p.disp.ret
          [] c = "ret_1d" -> p.disp.ret1d
          [] c = "rs_rank_21d" -> p.rs21
          [] c = "rs_rank_252d" -> p.rs252
          [] c = "pp_volume" -> p.disp.vol
          [] c = "ratio_pct_dist_to_atr_pct" -> p.ext
          [] c = "above_sma10" -> p.disp.sma10
          [] c = "above_sma20" -> p.disp.sma20
          [] OTHER -> p.disp.grp]

\* the daily and the weekly file of n tickers with the profiles prof
ProfileDaily(n, prof) ==
    Table(DailyCols,
          [i \in 1..n |-> DailyRow(TickerOrder[i], i, ProfileVals(prof[i], i))])

ProfileWeekly(n, prof) ==
    Table(WeeklyCols,
          SelectSeq([i \in 1..n |-> WeeklyRow(TickerOrder[i], i, prof[i].stage)],
                    LAMBDA r : r["stage_label_core"].kind # "norow"))

\* Rows for the display loop: one that passes every filter, one failing each
\* single filter and one failing all four, each in two groups of GROUP_ORDER;
\* and a passing and a failing row in a group outside GROUP_ORDER and with no
\* group
ViewDisp(g) == Disp(FltV(12), FltV(0 - 5), StrV("Pocket"), BoolV(TRUE), BoolV(FALSE), g)

PassAll == <<FltV(85), FltV(85), FltV(40), IntV(2)>>
FailAll == <<NA, FltV(84), NA, NoRow>>

ViewProfiles ==
    {Profile(f[1], f[2], f[3], f[4], ViewDisp(g)) :
        f \in {PassAll,
               <<FltV(84), FltV(85), FltV(40), IntV(2)>>,
               <<FltV(85), NA, FltV(40), IntV(2)>>,
               <<FltV(85), FltV(85), FltV(41), IntV(2)>>,
               <<FltV(85), FltV(85), FltV(40), IntV(3)>>,
               FailAll},
        g \in {StrV("Market"), StrV("Leader")}}
    \cup
    {Profile(f[1], f[2], f[3], f[4], ViewDisp(g)) :
        f \in {PassAll, FailAll}, g \in {StrV("Other"), NA}}

\* a file without some of its columns
Without(t, absent) == Table(t.cols \ absent, t.rows)

\* Daily columns a file of a session may lack: the group column, a styled
\* column, a styled column a filter reads, a column that is only formatted
ViewAbsent == {{"group"}, {"ret_intraday"}, {"rs_rank_21d"}, {"pp_volume"}}

\* the rows of a file that lacks a column: passing or failing every filter,
\* in two groups of GROUP_ORDER and in a group outside it
AbsentProfiles ==
    {Profile(f[1], f[2], f[3], f[4], ViewDisp(g)) :
        f \in {PassAll, FailAll}, g \in {StrV("Market"), StrV("Leader"), StrV("Other")}}

\* files with every column, and files that lack a daily column
InitView ==
    \/ \E n \in 1..MaxTickers :
           \E prof \in [1..n -> ViewProfiles] :
               InitWith(ProfileDaily(n, prof), ProfileWeekly(n, prof))
    \/ \E n \in 1..MaxTickers :
           \E prof \in [1..n -> AbsentProfiles], a \in ViewAbsent :
               InitWith(Without(ProfileDaily(n, prof), a), ProfileWeekly(n, prof))

NextView ==
    \/ LoadAndProcessData
    \/ Display
    \/ \E name \in ToggleNames : Toggle(name)

SpecView == InitView /\ [][NextView]_vars

\* One ticker, every combination of the values the filters read
RankVals == {NA, FltV(84), FltV(85)}
Rank1YVals == {NA, FltV(49), FltV(50), FltV(85)}
ExtVals == {NA, FltV(0 - 1), FltV(0), FltV(40), FltV(41), FltV(100), FltV(101)}
StageText == <<"1", "2", "3", "4">>
StageVals ==
    {NoRow, NA} \cup {IntV(k) : k \in 1..4} \cup {FltV(k) : k \in 1..4}
        \cup {StrV(StageText[k]) : k \in 1..4}

CellDisps ==
    {Disp(NA, NA, NA, NA, NA, StrV("Market")),
     Disp(FltV(0 - 1), FltV(0), StrV("Pocket"), BoolV(TRUE), BoolV(FALSE), StrV("Market")),
     Disp(FltV(1), FltV(12), StrV("Normal"), StrV("TRUE"), StrV("0"), StrV("Leader")),
     Disp(FltV(0), FltV(0 - 1), StrV("Other"), IntV(1), FltV(1), StrV("Theme"))}

CellProfiles ==
    {Profile(a, b, c, d, e) :
        a \in RankVals, b \in Rank1YVals, c \in ExtVals, d \in StageVals, e \in CellDisps}

\* a cell pd.read_csv leaves as text beside the text of the profile: a
\* column is read as text only when some cell of it is no number, no boolean
\* and not empty
Unknown == StrV("unknown")

\* The daily file of a profile: the row of ticker A, and when above_sma10 or
\* above_sma20 holds text an older row of A with the unreadable cell in that
\* column
CellDaily(p) ==
    LET t == ProfileDaily(1, <<p>>)
        textCols == {c \in {"above_sma10", "above_sma20"} : t.rows[1][c].kind = "str"}
        older == [c \in DailyCols |->
                    IF c = "date" THEN IntV(0)
                    ELSE IF c \in textCols THEN Unknown
                    ELSE t.rows[1][c]]
    IN  IF textCols = {} THEN t ELSE Table(DailyCols, Append(t.rows, older))

\* The weekly file of a profile: the row of ticker A if it has one, and when
\* its stage is text a row of ticker C with the unreadable cell
CellWeekly(p) ==
    LET t == ProfileWeekly(1, <<p>>)
    IN  IF p.stage.kind = "str"
        THEN Table(WeeklyCols, Append(t.rows, WeeklyRow("C", 1, Unknown)))
        ELSE t

InitCell ==
    \E p \in CellProfiles : InitWith(CellDaily(p), CellWeekly(p))

SpecCell == InitCell /\ [][NextView]_vars

----------------------------------------------------------------------------
(* Properties of the filters and the display loop *)

Rendered == pc = "rendered"
Failed == pc = "failed"

ToggleSettings == [ToggleNames -> BOOLEAN]
OnlyOn(name) == [n \in ToggleNames |-> n = name]

\* the tickers of a sequence of snapshot rows
Tickers(rows) == {rows[i]["Ticker"].str : i \in DOMAIN rows}

\* the snapshot row of a ticker
DataRow(tk) == CHOOSE r \in Range(cache.rows) : r["Ticker"].str = tk

\* the (section, row) places where a ticker is displayed
Places(secs, tk) ==
    UNION {{<<k, i>> : i \in {j \in DOMAIN secs[k].rows : secs[k].rows[j].ticker = tk}} :
              k \in DOMAIN secs}

\* the number of rows displayed under a group name
Shown(secs, g) ==
    Cardinality(UNION {{<<k, i>> : i \in DOMAIN secs[k].rows} :
                          k \in {j \in DOMAIN secs : secs[j].name = g}})

InGroupOrder(v) == v.kind = "str" /\ v.str \in Range(GROUP_ORDER)

\* C4 as stated: every filtered row, whatever its group, is displayed in
\* exactly one section, and every section is a group of GROUP_ORDER.
C4_EveryFilteredRowDisplayed ==
    Rendered =>
        /\ \A tk \in Tickers(filtered_df) : Cardinality(Places(sections, tk)) = 1
        /\ \A k \in DOMAIN sections : sections[k].name \in Range(GROUP_ORDER)

\* C4 amended: a run fails exactly when the snapshot has no group column, or
\* lacks one of the five styled columns while some filtered row has a group
\* of GROUP_ORDER. A failed run displays no table: nothing without the group
\* column, otherwise only the subheader of the first group of GROUP_ORDER
\* that has a filtered row. In every other run a
\* filtered row whose group is one of the seven names of GROUP_ORDER is
\* displayed exactly once, in the section of its group; a filtered row whose
\* group is another value or missing is displayed in no section; every
\* displayed row is a filtered row; the sections are distinct groups of
\* GROUP_ORDER, none empty.
C4_GroupOrderRowsDisplayedOnce ==
    /\ (Rendered \/ Failed) =>
          /\ Failed <=>
                \/ "group" \notin Range(cache.cols)
                \/ /\ ~(StyledCols \subseteq Range(cache.cols))
                   /\ \E r \in Range(filtered_df) : InGroupOrder(r["group"])
          /\ Failed =>
                IF "group" \notin Range(cache.cols) THEN sections = <<>>
                ELSE /\ Len(sections) = 1
                     /\ sections[1].rows = <<>>
                     /\ LET hasRow(j) == \E r \in Range(filtered_df) :
                                             r["group"] = StrV(GROUP_ORDER[j])
                        IN  \E k \in DOMAIN GROUP_ORDER :
                                /\ sections[1].name = GROUP_ORDER[k]
                                /\ hasRow(k)
                                /\ \A j \in DOMAIN GROUP_ORDER : j < k => ~hasRow(j)
    /\ Rendered =>
        /\ \A tk \in Tickers(filtered_df) :
              LET g == DataRow(tk)["group"]
              IN  IF InGroupOrder(g)
                  THEN /\ Cardinality(Places(sections, tk)) = 1
                       /\ \A pl \in Places(sections, tk) : sections[pl[1]].name = g.str
                  ELSE Places(sections, tk) = {}
        /\ \A k \in DOMAIN sections :
              /\ sections[k].name \in Range(GROUP_ORDER)
              /\ sections[k].rows # <<>>
              /\ \A i \in DOMAIN sections[k].rows :
                    sections[k].rows[i].ticker \in Tickers(filtered_df)
              /\ \A j \in DOMAIN sections : sections[j].name = sections[k].name => j = k

\* C4 witness: two filtered rows, one of group Market and one of a group
\* outside GROUP_ORDER; only the Market section is displayed
C4_Witness ==
    /\ Rendered
    /\ Len(filtered_df) = 2
    /\ filtered_df[1]["group"] = StrV("Market")
    /\ filtered_df[2]["group"] = StrV("Other")
    /\ Len(sections) = 1
    /\ sections[1].name = "Market"
    /\ Len(sections[1].rows) = 1

\* t2 has every filter of t1 active and at least one more
Stronger(t1, t2) == (\A n \in ToggleNames : t1[n] => t2[n]) /\ t1 # t2

\* C5: under any setting with every active filter of the current one and at
\* least one more, the surviving rows are among the rows surviving now, and
\* no group shows more rows than now.
C5_FilterMonotone ==
    Rendered =>
        \A t2 \in ToggleSettings :
            Stronger(toggles, t2) =>
                LET f2 == ApplyFilters(cache, t2)
                IN  /\ Range(f2) \subseteq Range(filtered_df)
                    /\ \A g \in Range(GROUP_ORDER) :
                          Shown(Sections(f2, cache.cols), g) <= Shown(sections, g)

\* C5 witness: with Strong RS 1M active two rows survive, and adding Low
\* Extension removes one of them
C5_Witness ==
    /\ Rendered
    /\ toggles = OnlyOn("hide_weak_rs_1m")
    /\ Len(filtered_df) = 2
    /\ Len(ApplyFilters(cache, [toggles EXCEPT !["limit_extension"] = TRUE])) = 1

\* a row passes every filter active in t; a filter on a column the
\* snapshot lacks does not run
PassesActive(r, t) ==
    /\ (t["hide_weak_rs_1m"] /\ "RS 1M" \in DOMAIN r) =>
          (IsNumber(r["RS 1M"]) /\ r["RS 1M"].num >= StrongRank)
    /\ (t["hide_weak_rs_1y"] /\ "RS 1Y" \in DOMAIN r) =>
          (IsNumber(r["RS 1Y"]) /\ r["RS 1Y"].num >= StrongRank)
    /\ (t["limit_extension"] /\ "Extension" \in DOMAIN r) =>
          (IsNumber(r["Extension"]) /\ r["Extension"].num <= ExtLow)
    /\ (t["stage_2_only"] /\ "Stage" \in DOMAIN r) =>
          (IsNumber(r["Stage"]) /\ r["Stage"].num = 2)

----------------------------------------------------------------------------
(* Properties of single values: Stage, Extension, missing cells *)

\* the stage code 2 in any stored form: 2, 2.0 or "2"
IsStage2(v) == (IsNumber(v) /\ v.num = 2) \/ (v.kind = "str" /\ v.str = "2")

\* C6: with Core Model the only active toggle a row survives exactly when its
\* Stage is 2, stored as integer, float or string; with Core Model inactive
\* the surviving rows are those passing the other active filters, whatever
\* their Stage.
C6_CoreModelKeepsStage2 ==
    Rendered =>
        \A r \in Range(cache.rows) :
            /\ toggles = OnlyOn("stage_2_only") =>
                  (r \in Range(filtered_df) <=> IsStage2(r["Stage"]))
            /\ ~toggles["stage_2_only"] =>
                  (r \in Range(filtered_df) <=> PassesActive(r, toggles))

Formats == FormatCols \cap Range(cache.cols)

\* C7 as stated: on a missing value every formatting function and the
\* Styler's cell text give the empty string, and every styling function
\* gives no style.
C7_MissingGivesEmpty ==
    Loaded =>
        \A r \in Range(cache.rows) : \A c \in Formats :
            isna(r[c]) =>
                /\ Formatter(c, r[c]) = EmptyStr
                /\ StylerText(c, r[c]) = EmptyStr
                /\ StylerStyle(c, r[c]) = NoStyle

\* C7 amended: on a missing value pct, ext and checkmark give the empty
\* string, stage_emoji and volume_icon give the white-circle marker, every
\* styling function gives no style, and the cell the Styler displays (format
\* with na_rep="") is the empty string with no style in every formatted
\* column, Stage and Volume included.
C7_MissingCells ==
    /\ Loaded =>
          \A r \in Range(cache.rows) : \A c \in Formats :
              isna(r[c]) =>
                  /\ Formatter(c, r[c]) = IF c \in {"Stage", "Volume"} THEN White ELSE EmptyStr
                  /\ StylerStyle(c, r[c]) = NoStyle
    /\ Rendered =>
          \A k \in DOMAIN sections : \A i \in DOMAIN sections[k].rows :
              LET d == sections[k].rows[i]
              IN  \A c \in Formats :
                      isna(DataRow(d.ticker)[c]) =>
                          d.text[c] = EmptyStr /\ d.style[c] = NoStyle

\* C7 witness: a displayed row with every formatted cell missing
C7_Witness ==
    /\ Rendered
    /\ Len(sections) = 1
    /\ \A c \in Formats :
          /\ isna(cache.rows[1][c])
          /\ sections[1].rows[1].text[c] = EmptyStr

\* the style the thresholds of C9 give a non-missing extension value
ExtensionCategory(n) ==
    IF n < 0 THEN StyleGrey
    ELSE IF n <= ExtLow THEN StyleGreen
    ELSE IF n > ExtLow /\ n <= ExtHigh THEN StyleYellow
    ELSE StyleRed

\* C9: a non-missing Extension is styled grey below 0, green from 0 to 4
\* inclusive, yellow above 4 to 10 inclusive, red above 10, in the displayed
\* cell as in style_extension; and with Low Extension the only active toggle
\* the surviving rows are the non-missing ones styled grey or green.
C9_ExtensionThresholds ==
    Rendered =>
        /\ \A r \in Range(cache.rows) :
              LET v == r["Extension"]
              IN  /\ notna(v) => style_extension(v) = ExtensionCategory(v.num)
                  /\ toggles = OnlyOn("limit_extension") =>
                        (r \in Range(filtered_df) <=>
                            (notna(v) /\ style_extension(v) \in {StyleGrey, StyleGreen}))
        /\ \A k \in DOMAIN sections : \A i \in DOMAIN sections[k].rows :
              LET d == sections[k].rows[i]
                  v == DataRow(d.ticker)["Extension"]
              IN  notna(v) => d.style["Extension"] = ExtensionCategory(v.num)

\* C9 witness: an Extension of exactly 4 survives Low Extension and is
\* displayed green
C9_Witness ==
    /\ Rendered
    /\ toggles = OnlyOn("limit_extension")
    /\ cache.rows[1]["Extension"] = FltV(ExtLow)
    /\ Len(sections) = 1
    /\ sections[1].rows[1].style["Extension"] = StyleGreen

====
